---- MODULE Spec2Model ----
(***************************************************************************)
(* Model of odl/operator/default.py (ScalingOperator, IdentityOperator,    *)
(* MultiplyOperator, the operator()/linear_operator() factories) and of    *)
(* odl/contrib/datasets/images/cambridge.py (convert and the named dataset *)
(* functions).                                                             *)
(*                                                                         *)
(* Python floats are modelled as a binary floating-point format of reduced *)
(* width: Precision significant bits, round-to-nearest-even, a smallest    *)
(* subnormal of 2^-FracBits, overflow to infinity above MaxFinite, and NaN.*)
(* A finite float is the integer number of 2^-FracBits units it holds.     *)
(***************************************************************************)
EXTENDS Integers, Sequences, FiniteSets, TLC

\* ------------------------------------------------------------------------
\* Bounds of the model
\* ------------------------------------------------------------------------
Precision == 3
FracBits == 6
MaxExp == 8
Dim == 2
MaxMut == 1

\* ------------------------------------------------------------------------
\* Floating-point arithmetic
\* ------------------------------------------------------------------------
Pow2(n) == IF n <= 0 THEN 1 ELSE 2 ^ n

One == Pow2(FracBits)
MaxFinite == (Pow2(Precision) - 1) * Pow2(MaxExp - Precision + 1 + FracBits)
PosInf == MaxFinite + 1
NegInf == 0 - PosInf
NaN == MaxFinite + 2

IsNaN(a) == a = NaN
IsInf(a) == a = PosInf \/ a = NegInf
IsFinite(a) == ~IsNaN(a) /\ ~IsInf(a)
Sign(a) == IF a < 0 THEN -1 ELSE IF a > 0 THEN 1 ELSE 0
Abs(a) == IF a < 0 THEN 0 - a ELSE a

\* number of low bits dropped so that q fits in Precision bits
MantLimit == Pow2(Precision)

RECURSIVE Shift(_)
Shift(q) == IF q < MantLimit THEN 0 ELSE 1 + Shift(q \div 2)

\* the quotient m (remainder r of the division by D) rounded to nearest,
\* ties to even
Nearest(m, r, D) == IF 2 * r > D \/ (2 * r = D /\ m % 2 = 1) THEN m + 1 ELSE m

\* values above the largest finite float are infinite
Clamp(v) == IF v > MaxFinite THEN PosInf ELSE v

\* a/d rounded to a multiple of 2^e
RoundAt(a, d, e) == Clamp(Nearest(a \div (d * Pow2(e)), a % (d * Pow2(e)), d * Pow2(e)) * Pow2(e))

\* a/d (a >= 0, d > 0) rounded to the nearest float, ties to even
RoundMag(a, d) ==
  IF a \div d > 2 * MaxFinite THEN PosInf ELSE RoundAt(a, d, Shift(a \div d))

\* n/d (d # 0) rounded to the nearest float
RoundRat(n, d) ==
  LET s == Sign(n) * Sign(d)
      v == RoundMag(Abs(n), Abs(d))
  IN IF s < 0 THEN 0 - v ELSE v

\* float(n/d): conversion of a Python number to a float
PyFloat(n, d) == RoundRat(n * One, d)

\* a * b
FMul(a, b) ==
  IF IsNaN(a) \/ IsNaN(b) THEN NaN
  ELSE IF IsInf(a) \/ IsInf(b)
       THEN IF a = 0 \/ b = 0 THEN NaN
            ELSE IF Sign(a) * Sign(b) > 0 THEN PosInf ELSE NegInf
       ELSE RoundRat(a * b, One)

\* a + b
FAdd(a, b) ==
  IF IsNaN(a) \/ IsNaN(b) THEN NaN
  ELSE IF IsInf(a) /\ IsInf(b) THEN (IF a = b THEN a ELSE NaN)
  ELSE IF IsInf(a) THEN a
  ELSE IF IsInf(b) THEN b
  ELSE RoundRat(a + b, 1)

\* a / b with b # 0 (IEEE division; b = 0 is decided by the caller)
FDivNZ(a, b) ==
  IF IsNaN(a) \/ IsNaN(b) THEN NaN
  ELSE IF IsInf(a) THEN (IF IsInf(b) THEN NaN
                         ELSE IF Sign(a) * Sign(b) > 0 THEN PosInf ELSE NegInf)
  ELSE IF IsInf(b) THEN 0
  ELSE RoundRat(a * One, b)

\* numpy's a / b: division by zero gives inf or nan (with a warning), no error
NpDiv(a, b) ==
  IF b # 0 THEN FDivNZ(a, b)
  ELSE IF IsNaN(a) \/ a = 0 THEN NaN
  ELSE IF a > 0 THEN PosInf ELSE NegInf

\* <<F(1), ..., F(n)>> and <<F(s[1]), ..., F(s[Len(s)])>>
RECURSIVE BuildSeq(_, _)
BuildSeq(F(_), n) == IF n <= 0 THEN <<>> ELSE Append(BuildSeq(F, n - 1), F(n))

RECURSIVE MapSeq(_, _)
MapSeq(F(_), s) == IF s = <<>> THEN <<>> ELSE <<F(Head(s))>> \o MapSeq(F, Tail(s))

\* ------------------------------------------------------------------------
\* Spaces and elements (odl.space, outside the excerpt): an element of Rn(Dim)
\* is a vector of Dim floats, mutated only through lincomb/assign/multiply
\* ------------------------------------------------------------------------
\* the values elements start with: [a*i + b] for a few (a, b)
Vecs == {BuildSeq(LAMBDA i : PyFloat(ab[1] * i + ab[2], 1), Dim) :
            ab \in {<<1, 0>>, <<2, 1>>, <<-2, 0>>}}

\* the scalars operators are built with, as numerator and denominator
ScalarArgs == {<<0, 1>>, <<2, 1>>, <<3, 1>>, <<1, 2>>, <<-3, 4>>}

\* the objects passed as 'space': a LinearSpace or some other set
SpaceArgs == {"Rn", "UniversalSet"}

isLinearSpace(space) == space = "Rn"

\* outp.lincomb(a, x): outp <- a*x
Elem_lincomb(a, x) == MapSeq(LAMBDA v : FMul(a, v), x)

\* a * x: a new element
Elem_rmul(a, x) == MapSeq(LAMBDA v : FMul(a, v), x)

\* outp.assign(x): outp <- x
Elem_assign(x) == x

\* outp.multiply(x): outp <- outp * x, elementwise
Elem_multiply(outp, x) == BuildSeq(LAMBDA i : FMul(outp[i], x[i]), Len(outp))

\* ------------------------------------------------------------------------
\* ScalingOperator, IdentityOperator
\* ------------------------------------------------------------------------
NoOp == [cls |-> "none", space |-> "", scal |-> 0]

\* ScalingOperator.__init__: the outcome is an operator or a TypeError
ScalingOperator_init(space, n, d) ==
  IF ~isLinearSpace(space)
  THEN [err |-> "TypeError", obj |-> NoOp]
  ELSE [err |-> "",
        obj |-> [cls |-> "ScalingOperator", space |-> space, scal |-> PyFloat(n, d)]]

\* IdentityOperator.__init__: super().__init__(space, 1)
IdentityOperator_init(space) ==
  LET r == ScalingOperator_init(space, 1, 1)
  IN IF r.err # "" THEN r
     ELSE [r EXCEPT !.obj.cls = "IdentityOperator"]

\* variant of _apply that adds c*inp to what outp holds (sensitivity of C8)
ScalingOperator_apply_accumulate(self, h, inp, outp) ==
  [h EXCEPT ![outp] = BuildSeq(LAMBDA i : FAdd(h[outp][i], FMul(self.scal, h[inp][i])),
                               Len(h[inp]))]

\* ScalingOperator._apply: outp.lincomb(self._scal, inp) on the heap h
ScalingOperator_apply(self, h, inp, outp) ==
  [h EXCEPT ![outp] = Elem_lincomb(self.scal, h[inp])]

\* ScalingOperator._call: self._scal * inp
ScalingOperator_call(self, x) == Elem_rmul(self.scal, x)

\* variant of inverse that keeps the scalar (sensitivity of C1)
ScalingOperator_inverse_same(self) ==
  [err |-> "", obj |-> [cls |-> "ScalingOperator", space |-> self.space, scal |-> self.scal]]

\* variant of inverse that divides as IEEE arithmetic does, 1/0 = inf
\* (sensitivity of C6)
ScalingOperator_inverse_ieee(self) ==
  [err |-> "",
   obj |-> [cls |-> "ScalingOperator", space |-> self.space, scal |-> NpDiv(One, self.scal)]]

\* ScalingOperator.inverse: ScalingOperator(self._space, 1.0/self._scal);
\* Python's float division raises ZeroDivisionError for a zero divisor
ScalingOperator_inverse(self) ==
  IF self.scal = 0
  THEN [err |-> "ZeroDivisionError", obj |-> NoOp]
  ELSE LET q == FDivNZ(One, self.scal)
       IN IF ~isLinearSpace(self.space)
          THEN [err |-> "TypeError", obj |-> NoOp]
          ELSE [err |-> "",
                obj |-> [cls |-> "ScalingOperator", space |-> self.space, scal |-> q]]

ScalingOperator_domain(self) == self.space
ScalingOperator_range(self) == self.space

\* ------------------------------------------------------------------------
\* MultiplyOperator
\* ------------------------------------------------------------------------
\* variant of _apply without the assignment: outp.multiply(inp[0]) only
\* (sensitivity of C7)
MultiplyOperator_apply_noassign(h, inp0, inp1, outp) ==
  [h EXCEPT ![outp] = Elem_multiply(h[outp], h[inp0])]

\* MultiplyOperator._apply: outp.assign(inp[1]); outp.multiply(inp[0])
MultiplyOperator_apply(h, inp0, inp1, outp) ==
  LET h1 == [h EXCEPT ![outp] = Elem_assign(h[inp1])]
  IN [h1 EXCEPT ![outp] = Elem_multiply(h1[outp], h1[inp0])]


\* ------------------------------------------------------------------------
\* The factories operator() and linear_operator()
\* ------------------------------------------------------------------------
None == "None"
NoVec == <<>>
NoType == [base |-> None]

\* the plain functions a caller passes as call=: x |-> 3*x and x |-> x/2
CallFns == {"triple", "half"}
\* the plain functions a caller passes as apply=: out <- 3*x and out <- x
ApplyFns == {"triple_into", "copy_into"}

CallFn(fn, x) ==
  IF fn = "triple" THEN Elem_rmul(PyFloat(3, 1), x) ELSE Elem_rmul(PyFloat(1, 2), x)

ApplyFn(fn, h, i, o) ==
  IF fn = "triple_into"
  THEN [h EXCEPT ![o] = Elem_lincomb(PyFloat(3, 1), h[i])]
  ELSE [h EXCEPT ![o] = Elem_assign(h[i])]

\* instance_method(function): a method that drops self and calls function;
\* it is a method object also when function is None
instance_method(function) == [wraps |-> function]

\* calling the method made from a call function: None is not callable
method_call(m, x) ==
  IF m.wraps = None
  THEN [err |-> "TypeError", val |-> NoVec]
  ELSE [err |-> "", val |-> CallFn(m.wraps, x)]

\* calling the method made from an apply function
method_apply(m, h, i, o) ==
  IF m.wraps = None
  THEN [err |-> "TypeError", heap |-> h]
  ELSE [err |-> "", heap |-> ApplyFn(m.wraps, h, i, o)]

\* The operator abstraction (odl.operator.operator, outside the excerpt): a
\* type that defines only one of _call and _apply gets the other derived
Metaclass_new(base, attrs) ==
  [base |-> base,
   attrs |-> attrs,
   derive_call |-> "_call" \notin DOMAIN attrs /\ "_apply" \in DOMAIN attrs,
   derive_apply |-> "_apply" \notin DOMAIN attrs /\ "_call" \in DOMAIN attrs]

\* Operator.apply(x, out): the type's _apply, or out.assign(self._call(x))
Operator_apply(t, h, i, o) ==
  IF t.derive_apply
  THEN LET r == method_call(t.attrs["_call"], h[i])
       IN IF r.err # "" THEN [err |-> r.err, heap |-> h]
          ELSE [err |-> "", heap |-> [h EXCEPT ![o] = Elem_assign(r.val)]]
  ELSE IF "_apply" \in DOMAIN t.attrs
       THEN method_apply(t.attrs["_apply"], h, i, o)
       ELSE [err |-> "NotImplementedError", heap |-> h]

\* Operator.__call__(x): the type's _call, or _apply into a fresh element of
\* the range (written here into the scratch cell "new" of the heap)
Operator_call(t, h, i) ==
  IF t.derive_call
  THEN IF ~isLinearSpace(t.attrs["range"].val)
       THEN [err |-> "TypeError", val |-> NoVec]
       ELSE LET r == method_apply(t.attrs["_apply"], h, i, "new")
            IN [err |-> r.err, val |-> IF r.err = "" THEN r.heap["new"] ELSE NoVec]
  ELSE IF "_call" \in DOMAIN t.attrs
       THEN method_call(t.attrs["_call"], h[i])
       ELSE [err |-> "NotImplementedError", val |-> NoVec]

\* the keyword arguments besides call and apply
KwArgs ==
  {[inv |-> None, deriv |-> None, adj |-> None, dom |-> "UniversalSet", ran |-> "UniversalSet"],
   [inv |-> "op", deriv |-> "op", adj |-> "op", dom |-> "UniversalSet", ran |-> "Rn"]}

\* variant of operator() without the check of call and apply (sensitivity of C4)
operator_unchecked(call, apply, kw) ==
  [err |-> "",
   type |-> Metaclass_new("Operator",
              [k \in {"_call", "_apply", "inverse", "derivative", "domain", "range"} |->
                 CASE k = "_call" -> instance_method(call)
                   [] k = "_apply" -> instance_method(apply)
                   [] k = "inverse" -> [val |-> kw.inv]
                   [] k = "derivative" -> [val |-> kw.deriv]
                   [] k = "domain" -> [val |-> kw.dom]
                   [] k = "range" -> [val |-> kw.ran]])]

\* operator(call, apply, inv, deriv, dom, ran)
operator(call, apply, kw) ==
  IF call = None /\ apply = None
  THEN [err |-> "ValueError", type |-> NoType]
  ELSE [err |-> "",
        type |-> Metaclass_new("Operator",
                   [k \in {"_call", "_apply", "inverse", "derivative", "domain", "range"} |->
                      CASE k = "_call" -> instance_method(call)
                        [] k = "_apply" -> instance_method(apply)
                        [] k = "inverse" -> [val |-> kw.inv]
                        [] k = "derivative" -> [val |-> kw.deriv]
                        [] k = "domain" -> [val |-> kw.dom]
                        [] k = "range" -> [val |-> kw.ran]])]

\* linear_operator(call, apply, inv, deriv, adj, dom, ran)
linear_operator(call, apply, kw) ==
  IF call = None /\ apply = None
  THEN [err |-> "ValueError", type |-> NoType]
  ELSE [err |-> "",
        type |-> Metaclass_new("LinearOperator",
                   [k \in {"_call", "_apply", "inverse", "derivative", "adjoint",
                           "domain", "range"} |->
                      CASE k = "_call" -> instance_method(call)
                        [] k = "_apply" -> instance_method(apply)
                        [] k = "inverse" -> [val |-> kw.inv]
                        [] k = "derivative" -> [val |-> kw.deriv]
                        [] k = "adjoint" -> [val |-> kw.adj]
                        [] k = "domain" -> [val |-> kw.dom]
                        [] k = "range" -> [val |-> kw.ran]])]

\* ------------------------------------------------------------------------
\* Arrays (numpy): a buffer holds a shape, a dtype and its pixels in row-major
\* order, each pixel a tuple of chan entries; an array object is a buffer of
\* the heap seen through a rotation (np.rot90 returns a view)
\* ------------------------------------------------------------------------
MaxPix == 2
White == 255

\* shape=None
NoShape == <<>>

NoArr == [h |-> 0, w |-> 0, chan |-> 0, dtype |-> None, px |-> <<>>]

\* uint8 arithmetic wraps modulo 256
U8(v) == v % 256

\* the value v of dtype from, converted to dtype to (ndarray.astype)
ConvVal(v, from, to) ==
  IF to = "float64"
  THEN (IF from = "float64" THEN v ELSE PyFloat(v, 1))
  ELSE (IF from = "float64"
        THEN (IF IsFinite(v) THEN Sign(v) * (Abs(v) \div One) ELSE 0)
        ELSE v)

\* np.rot90(b, k) read out: (rot90 b)[i, j] = b[j, W-1-i] for k = 1
Rot90(b, k) ==
  LET kk == k % 4
      H == b.h
      W == b.w
      h2 == IF kk % 2 = 0 THEN H ELSE W
      w2 == IF kk % 2 = 0 THEN W ELSE H
      src(i, j) == CASE kk = 0 -> i * W + j
                     [] kk = 1 -> j * W + (W - 1 - i)
                     [] kk = 2 -> (H - 1 - i) * W + (W - 1 - j)
                     [] kk = 3 -> (H - 1 - j) * W + i
  IN [b EXCEPT !.h = h2, !.w = w2,
               !.px = BuildSeq(LAMBDA p : b.px[src((p - 1) \div w2, (p - 1) % w2) + 1],
                               H * W)]

\* the array an array object denotes
ReadArr(heap, a) == Rot90(heap[a.buf], a.k)

RECURSIVE Flatten(_)
Flatten(px) == IF px = <<>> THEN <<>> ELSE Head(px) \o Flatten(Tail(px))

\* all entries of an array in C order
Entries(b) == Flatten(b.px)

\* the larger of two entries; NaN propagates
Max2(a, m) == IF IsNaN(a) \/ IsNaN(m) THEN NaN ELSE IF a >= m THEN a ELSE m

\* ndarray.max()
RECURSIVE SeqMax(_)
SeqMax(s) == IF Len(s) = 1 THEN s[1] ELSE Max2(s[1], SeqMax(Tail(s)))

\* ndarray.sum() of a float array: the entries added up in order
RECURSIVE FSumFrom(_, _)
FSumFrom(acc, s) == IF s = <<>> THEN acc ELSE FSumFrom(FAdd(acc, Head(s)), Tail(s))

FSum(s) == FSumFrom(0, s)

\* a new array object on a new buffer c
NewArr(heap, c) == [heap |-> Append(heap, c), img |-> [buf |-> Len(heap) + 1, k |-> 0]]

\* the array b with every entry converted to dtype
astype_buf(b, dtype) ==
  [b EXCEPT !.dtype = dtype,
            !.px = MapSeq(LAMBDA pix : MapSeq(LAMBDA v : ConvVal(v, b.dtype, dtype), pix), @)]

\* variant of astype that converts the buffer where it is (sensitivity of C9)
np_astype_nocopy(heap, a, dtype) ==
  [heap |-> [heap EXCEPT ![a.buf] = astype_buf(Rot90(@, a.k), dtype)],
   img |-> [buf |-> a.buf, k |-> 0]]

\* image.astype(dtype): always a new buffer (copy=True is the default)
np_astype(heap, a, dtype) == NewArr(heap, astype_buf(ReadArr(heap, a), dtype))

\* image[..., q] *= wgt, in place in the buffer the array object refers to
MulChannel(heap, a, q, wgt) ==
  [heap EXCEPT ![a.buf].px =
     MapSeq(LAMBDA pix : [pix EXCEPT ![q] = FMul(pix[q], wgt)], @)]

\* image /= d, in place in the buffer the array object refers to
DivInPlace(heap, a, d) ==
  [heap EXCEPT ![a.buf].px =
     MapSeq(LAMBDA pix : MapSeq(LAMBDA v : NpDiv(v, d), pix), @)]

\* the per-pixel sums of b
sum_axis2(b) == [b EXCEPT !.chan = 1, !.px = MapSeq(LAMBDA pix : <<FSum(pix)>>, @)]

\* np.sum(image, axis=2): a new 2-D array of the per-pixel sums
SumAxis2(heap, a) == NewArr(heap, sum_axis2(ReadArr(heap, a)))

\* ------------------------------------------------------------------------
\* convert
\* ------------------------------------------------------------------------
Wgt0 == PyFloat(2126, 10000)
Wgt1 == PyFloat(7152, 10000)
Wgt2 == PyFloat(722, 10000)

\* what scipy's imresize(image, shape) returns for an image of chan channels:
\* a uint8 array of the shape asked for; of its contents the model keeps two
\* cases, every entry 0 (lvl = 0) or pixel p holding p in each channel
imresize(shape, chan, lvl) ==
  IF shape = NoShape THEN NoArr
  ELSE [h |-> shape[1], w |-> shape[2], chan |-> chan, dtype |-> "uint8",
        px |-> BuildSeq(LAMBDA p : BuildSeq(LAMBDA q : U8(p * lvl), chan),
                        shape[1] * shape[2])]

\* the state of a run of convert: the error raised if any, the heap, the
\* array object the local variable image refers to
Ok(r) == [err |-> "", heap |-> r.heap, img |-> r.img]
Raised(e, r) == [err |-> e, heap |-> r.heap, img |-> r.img]

\* lines 33-37 of convert: the grayscale conversion of the array s.img. The
\* in-place product with a float fails on an integer array, the channel
\* index on an array without channels
convert_gray(s, gray, dtype) ==
  IF ~gray THEN Ok(s)
  ELSE IF dtype # "float64" THEN Raised("TypeError", s)
  ELSE IF s.heap[s.img.buf].chan # 3 THEN Raised("IndexError", s)
  ELSE Ok(SumAxis2(MulChannel(MulChannel(MulChannel(s.heap, s.img, 1, Wgt0),
                                         s.img, 2, Wgt1),
                              s.img, 3, Wgt2),
                   s.img))

\* lines 39-40 of convert: the resize; resized is what imresize returns
convert_resize(s, shape, dtype, resized) ==
  IF s.err # "" \/ shape = NoShape THEN s
  ELSE Ok(np_astype(Append(s.heap, resized), [buf |-> Len(s.heap) + 1, k |-> 0], dtype))

\* lines 31-40 of convert: astype, the grayscale conversion, the resize
convert_prepare(heap, image, shape, gray, dtype, resized) ==
  convert_resize(convert_gray(np_astype(heap, image, dtype), gray, dtype),
                 shape, dtype, resized)

\* variant of the normalisation with the two modes exchanged (sensitivity of C3)
convert_normalize_swapped(s, dtype, normalize, debug) ==
  IF s.err # "" THEN s
  ELSE IF normalize = "sum"
       THEN IF dtype # "float64" THEN [s EXCEPT !.err = "TypeError"]
            ELSE [s EXCEPT !.heap = DivInPlace(s.heap, s.img,
                                      SeqMax(Entries(ReadArr(s.heap, s.img))))]
  ELSE IF normalize = "max"
       THEN IF dtype # "float64" THEN [s EXCEPT !.err = "TypeError"]
            ELSE [s EXCEPT !.heap = DivInPlace(s.heap, s.img,
                                      FSum(Entries(ReadArr(s.heap, s.img))))]
  ELSE IF debug THEN [s EXCEPT !.err = "AssertionError"]
  ELSE s

\* lines 42-49 of convert: the normalisation and the return. Under python -O
\* (debug = FALSE) the assert statement is compiled away
convert_normalize(s, dtype, normalize, debug) ==
  IF s.err # "" THEN s
  ELSE IF normalize = "max"
       THEN IF dtype # "float64" THEN [s EXCEPT !.err = "TypeError"]
            ELSE [s EXCEPT !.heap = DivInPlace(s.heap, s.img,
                                      SeqMax(Entries(ReadArr(s.heap, s.img))))]
  ELSE IF normalize = "sum"
       THEN IF dtype # "float64" THEN [s EXCEPT !.err = "TypeError"]
            ELSE [s EXCEPT !.heap = DivInPlace(s.heap, s.img,
                                      FSum(Entries(ReadArr(s.heap, s.img))))]
  ELSE IF debug THEN [s EXCEPT !.err = "AssertionError"]
  ELSE s

\* the outcome r of convert, with the array p.img as it was when the
\* normalisation started
Outcome(r, p) ==
  [err |-> r.err, heap |-> r.heap, img |-> r.img,
   prenorm |-> IF p.err = "" THEN ReadArr(p.heap, p.img) ELSE NoArr]

\* lines 42-49 of convert, from the state p that lines 31-40 leave
convert_finish(p, dtype, normalize, debug) ==
  Outcome(convert_normalize(p, dtype, normalize, debug), p)

\* convert(image, shape, gray, dtype, normalize)
convert(heap, image, shape, gray, dtype, normalize, resized, debug) ==
  convert_finish(convert_prepare(heap, image, shape, gray, dtype, resized),
                 dtype, normalize, debug)

\* 255 - b: uint8 stays uint8 and wraps
white_minus(b) ==
  [b EXCEPT !.px = MapSeq(LAMBDA pix :
                            MapSeq(LAMBDA v : IF b.dtype = "float64"
                                              THEN FAdd(PyFloat(White, 1), 0 - v)
                                              ELSE U8(White - v), pix),
                          @)]

\* 255 - im: a new array
WhiteMinus(heap, a) == NewArr(heap, white_minus(ReadArr(heap, a)))

\* convert(m, shape, normalize='sum') of the new array m
convert_sum(m, shape, resized, debug) ==
  convert(m.heap, m.img, shape, FALSE, "float64", "sum", resized, debug)

DatasetFns == {"brain_phantom", "resolution_phantom", "building", "rings", "blurring_kernel"}

\* the named dataset functions, on a heap whose buffer 1 is dct['im']
dataset(name, heap, shape, gray, resized, debug) ==
  CASE name = "brain_phantom" ->
         convert(heap, [buf |-> 1, k |-> 3], shape, FALSE, "float64", "max", resized, debug)
    [] name = "resolution_phantom" ->
         convert(heap, [buf |-> 1, k |-> 3], shape, FALSE, "float64", "max", resized, debug)
    [] name = "building" ->
         convert(heap, [buf |-> 1, k |-> 3], shape, gray, "float64", "max", resized, debug)
    [] name = "rings" ->
         convert(heap, [buf |-> 1, k |-> 2], shape, gray, "float64", "max", resized, debug)
    [] name = "blurring_kernel" ->
         convert_sum(WhiteMinus(heap, [buf |-> 1, k |-> 0]), shape, resized, debug)

\* ------------------------------------------------------------------------
\* State
\*   elems  the caller's elements, by name
\*   op     the ScalingOperator under test, inv what op.inverse returned
\*   fop    the operator the factory returned last, ntypes the number of
\*          operator types created so far
\*   data   the array the fetch/cache collaborator holds, debug whether the
\*          interpreter runs assert statements
\*   args   the arguments of the call of convert or of a dataset function
\*   last   the record of the last operation: its arguments, the state before
\*          it, and its outcome
\*   nmut   the number of in-place applications so far
\* ------------------------------------------------------------------------
VARIABLES elems, op, inv, fop, ntypes, data, debug, args, last, nmut

vars == <<elems, op, inv, fop, ntypes, data, debug, args, last, nmut>>

MaxTypes == 2
NoInst == [type |-> NoType]

Rec(o, e, f, i, ou, p, v, og, vi) ==
  [op |-> o, err |-> e, f |-> f, inp |-> i, out |-> ou, pre |-> p,
   val |-> v, orig |-> og, via |-> vi]

FRec(o, e, c, a, i, ou, p, v) ==
  [op |-> o, err |-> e, call |-> c, apply |-> a, inp |-> i, out |-> ou, pre |-> p,
   val |-> v]

IRec(o, e, pd, pn, r) ==
  [op |-> o, err |-> e, predata |-> pd, prenorm |-> pn, ret |-> r]

OpsIdle == op = NoOp /\ inv = NoOp
FactoryIdle == fop = NoInst /\ ntypes = 0
NoArgs == [fn |-> None]
ImgIdle == data = NoArr /\ debug = TRUE /\ args = NoArgs

Obj(f) == IF f = "op" THEN op ELSE inv

\* ---- ScalingOperator / IdentityOperator ----

\* op = ScalingOperator(space, n/d)
NewScaling(space, c) ==
  /\ op = NoOp
  /\ LET r == ScalingOperator_init(space, c[1], c[2])
     IN /\ op' = r.obj
        /\ last' = Rec("new", r.err, "op", <<space, c[1], c[2]>>, "", elems,
                       NoVec, NoVec, <<>>)
  /\ UNCHANGED <<elems, inv, nmut, fop, ntypes, data, debug, args>>

\* op = IdentityOperator(space)
NewIdentity(space) ==
  /\ op = NoOp
  /\ LET r == IdentityOperator_init(space)
     IN /\ op' = r.obj
        /\ last' = Rec("new", r.err, "op", <<space, 1, 1>>, "", elems,
                       NoVec, NoVec, <<>>)
  /\ UNCHANGED <<elems, inv, nmut, fop, ntypes, data, debug, args>>

\* inv = op.inverse
Inverse ==
  /\ op # NoOp
  /\ inv = NoOp
  /\ LET r == ScalingOperator_inverse(op)
     IN /\ inv' = r.obj
        /\ last' = Rec("inverse", r.err, "op", <<>>, "", elems, NoVec, NoVec, <<>>)
  /\ UNCHANGED <<elems, op, nmut, fop, ntypes, data, debug, args>>

\* f.apply(i, o)
Apply(f, i, o) ==
  /\ Obj(f) # NoOp
  /\ nmut < MaxMut
  /\ elems' = ScalingOperator_apply(Obj(f), elems, i, o)
  /\ nmut' = nmut + 1
  /\ last' = Rec("apply", "", f, <<i>>, o, elems, NoVec, NoVec, <<>>)
  /\ UNCHANGED <<op, inv, fop, ntypes, data, debug, args>>

\* f(i): the call on a named element
Call(f, i) ==
  /\ Obj(f) # NoOp
  /\ last' = Rec("call", "", f, <<i>>, "", elems,
                 ScalingOperator_call(Obj(f), elems[i]), elems[i], <<f>>)
  /\ UNCHANGED <<elems, op, inv, nmut, fop, ntypes, data, debug, args>>

\* f(r) where r is the element the previous call returned: f(g(x))
CallOnResult(f) ==
  /\ Obj(f) # NoOp
  /\ last.op = "call"
  /\ Len(last.via) = 1
  /\ last' = Rec("call", "", f, last.inp, "", elems,
                 ScalingOperator_call(Obj(f), last.val), last.orig,
                 Append(last.via, f))
  /\ UNCHANGED <<elems, op, inv, nmut, fop, ntypes, data, debug, args>>

InitOps ==
  /\ elems \in [{"x", "z"} -> Vecs]
  /\ OpsIdle /\ FactoryIdle /\ ImgIdle
  /\ nmut = 0
  /\ last = Rec("init", "", "", <<>>, "", elems, NoVec, NoVec, <<>>)

Next ==
  \/ \E s \in SpaceArgs, c \in ScalarArgs : NewScaling(s, c)
  \/ \E s \in SpaceArgs : NewIdentity(s)
  \/ Inverse
  \/ \E f \in {"op", "inv"}, i \in DOMAIN elems, o \in DOMAIN elems : Apply(f, i, o)
  \/ \E f \in {"op", "inv"}, i \in DOMAIN elems : Call(f, i)
  \/ \E f \in {"op", "inv"} : CallOnResult(f)

Spec == InitOps /\ [][Next]_vars

\* ---- MultiplyOperator ----

\* MultiplyOperator(space).apply([i0, i1], o)
MulApply(i0, i1, o) ==
  /\ nmut < MaxMut
  /\ elems' = MultiplyOperator_apply(elems, i0, i1, o)
  /\ nmut' = nmut + 1
  /\ last' = Rec("mul", "", "mul", <<i0, i1>>, o, elems, NoVec, NoVec, <<>>)
  /\ UNCHANGED <<op, inv, fop, ntypes, data, debug, args>>

InitMul ==
  /\ elems \in [{"x", "y", "z"} -> Vecs]
  /\ OpsIdle /\ FactoryIdle /\ ImgIdle
  /\ nmut = 0
  /\ last = Rec("init", "", "", <<>>, "", elems, NoVec, NoVec, <<>>)

NextMul == \E i0 \in DOMAIN elems, i1 \in DOMAIN elems, o \in DOMAIN elems : MulApply(i0, i1, o)

SpecMul == InitMul /\ [][NextMul]_vars

\* ---- the factories ----

\* fop = operator(call, apply, ...) or linear_operator(call, apply, ...)
Factory(linear, call, apply, kw) ==
  /\ ntypes < MaxTypes
  /\ LET r == IF linear THEN linear_operator(call, apply, kw) ELSE operator(call, apply, kw)
     IN /\ fop' = IF r.err = "" THEN [type |-> r.type] ELSE fop
        /\ ntypes' = IF r.err = "" THEN ntypes + 1 ELSE ntypes
        /\ last' = FRec(IF linear THEN "linear_operator" ELSE "operator", r.err,
                        call, apply, "", "", elems, NoVec)
  /\ UNCHANGED <<elems, op, inv, data, debug, args, nmut>>

\* fop.apply(i, o)
FApply(i, o) ==
  /\ fop # NoInst
  /\ nmut < MaxMut
  /\ LET r == Operator_apply(fop.type, elems, i, o)
     IN /\ elems' = r.heap
        /\ last' = FRec("fapply", r.err, fop.type.attrs["_call"].wraps,
                        fop.type.attrs["_apply"].wraps, i, o, elems, NoVec)
  /\ nmut' = nmut + 1
  /\ UNCHANGED <<op, inv, fop, ntypes, data, debug, args>>

\* fop(i)
FCall(i) ==
  /\ fop # NoInst
  /\ LET h == [e \in DOMAIN elems \cup {"new"} |->
                 IF e \in DOMAIN elems THEN elems[e] ELSE BuildSeq(LAMBDA k : 0, Dim)]
         r == Operator_call(fop.type, h, i)
     IN last' = FRec("fcall", r.err, fop.type.attrs["_call"].wraps,
                     fop.type.attrs["_apply"].wraps, i, "", elems, r.val)
  /\ UNCHANGED <<elems, op, inv, fop, ntypes, data, debug, args, nmut>>

InitFactory ==
  /\ elems \in [{"x", "z"} -> Vecs]
  /\ OpsIdle /\ FactoryIdle /\ ImgIdle
  /\ nmut = 0
  /\ last = FRec("init", "", None, None, "", "", elems, NoVec)

NextFactory ==
  \/ \E l \in BOOLEAN, c \in CallFns \cup {None}, a \in ApplyFns \cup {None}, kw \in KwArgs :
        Factory(l, c, a, kw)
  \/ \E i \in DOMAIN elems, o \in DOMAIN elems : FApply(i, o)
  \/ \E i \in DOMAIN elems : FCall(i)

SpecFactory == InitFactory /\ [][NextFactory]_vars

\* ---- convert and the dataset functions ----

\* the arrays the fetch/cache collaborator may hold
Images ==
  {[h |-> 1, w |-> MaxPix, chan |-> 1, dtype |-> "uint8", px |-> px] :
     px \in [1..MaxPix -> {<<0>>, <<2>>, <<5>>}]}
  \cup {[h |-> 1, w |-> MaxPix, chan |-> 1, dtype |-> "float64", px |-> px] :
     px \in [1..MaxPix -> {<<PyFloat(-1, 1)>>, <<PyFloat(3, 2)>>}]}
  \cup {[h |-> 1, w |-> MaxPix, chan |-> 3, dtype |-> "uint8", px |-> px] :
     px \in [1..MaxPix -> {<<0, 0, 0>>, <<5, 2, 1>>}]}

ShapeArgs == {NoShape, <<1, 1>>, <<1, MaxPix>>}
DtypeArgs == {"float64", "int64"}
NormalizeArgs == {"max", "sum", "foo"}

\* the calls: convert with any arguments, the dataset functions with theirs
\* (lvl selects what imresize returns, when it is called)
CallArgs ==
  {[fn |-> "convert", shape |-> sh, gray |-> g, dtype |-> dt, normalize |-> nm, lvl |-> l] :
     sh \in ShapeArgs, g \in BOOLEAN, dt \in DtypeArgs, nm \in NormalizeArgs, l \in {0, 1}}
  \cup {[fn |-> f, shape |-> sh, gray |-> g, dtype |-> "float64",
         normalize |-> IF f = "blurring_kernel" THEN "sum" ELSE "max", lvl |-> l] :
     f \in DatasetFns, sh \in ShapeArgs, g \in BOOLEAN, l \in {0, 1}}

\* the call named fn ends with outcome r: its effect on the array held and
\* the record of it
Returned(fn, r) ==
  /\ data' = r.heap[1]
  /\ last' = IRec(fn, r.err, data, r.prenorm,
                  IF r.err = "" THEN ReadArr(r.heap, r.img) ELSE NoArr)

\* convert(data, shape, gray, dtype, normalize)
Convert ==
  /\ args.fn = "convert"
  /\ Returned("convert",
              convert(<<data>>, [buf |-> 1, k |-> 0], args.shape, args.gray, args.dtype,
                      args.normalize,
                      imresize(args.shape, IF args.gray THEN 1 ELSE data.chan, args.lvl),
                      debug))
  /\ UNCHANGED <<elems, op, inv, fop, ntypes, debug, args, nmut>>

\* name(shape) or name(shape, gray): one of the named dataset functions
Dataset ==
  /\ args.fn \in DatasetFns
  /\ Returned(args.fn,
              dataset(args.fn, <<data>>, args.shape, args.gray,
                      imresize(args.shape, IF args.gray THEN 1 ELSE data.chan, args.lvl),
                      debug))
  /\ UNCHANGED <<elems, op, inv, fop, ntypes, debug, args, nmut>>

InitImg ==
  /\ elems = [e \in {"x"} |-> NoVec]
  /\ OpsIdle /\ FactoryIdle
  /\ data \in Images
  /\ debug \in BOOLEAN
  /\ args \in {a \in CallArgs :
                 /\ (a.shape = NoShape => a.lvl = 0)
                 /\ (a.fn \in {"brain_phantom", "resolution_phantom", "blurring_kernel"}
                       => ~a.gray)}
  /\ nmut = 0
  /\ last = IRec("init", "", data, NoArr, NoArr)

NextImg == Convert \/ Dataset

SpecImg == InitImg /\ [][NextImg]_vars

\* ------------------------------------------------------------------------
\* Properties of ScalingOperator and IdentityOperator (checked in Spec)
\* ------------------------------------------------------------------------
\* c*x computed entry by entry
Scaled(c, x) == BuildSeq(LAMBDA i : FMul(c, x[i]), Len(x))

\* the last operation was g(f(x)) with f, g the operator and its inverse
RoundTrip ==
  /\ last.op = "call"
  /\ Len(last.via) = 2
  /\ last.via[1] # last.via[2]
  /\ inv # NoOp

\* f(x), the element the second call of a round trip was given
Mid == Scaled(Obj(last.via[1]).scal, last.orig)

IsPow2(n) == \E k \in 0..(MaxExp + FracBits) : n = Pow2(k)

\* 1/c is a float: c is a power of two whose reciprocal is in range
ExactReciprocal(c) ==
  /\ IsPow2(Abs(c))
  /\ Abs(c) <= One * One
  /\ One * One <= MaxFinite * Abs(c)

\* a * b needs no rounding
ExactProduct(a, b, prod) == IsFinite(prod) /\ prod * One = a * b

\* a is finite and nonzero and not below the normal range: rounding to a
\* changes a value by at most 2^-Precision of it
Normal(a) == IsFinite(a) /\ Abs(a) >= Pow2(Precision - 1)

\* C1 as stated: for every c # 0, inv(op(x)) = x and op(inv(x)) = x.
C1_RoundTripExact == RoundTrip => last.val = last.orig

\* C1, amended: inv(op(x)) = x and op(inv(x)) = x hold exactly when 1/c is a
\* float (c a power of two) and the first scaling needs no rounding; for any
\* c # 0, where no value overflows or underflows, each entry of the round
\* trip differs from that of x by at most 4 * 2^-Precision of it.
C1_RoundTrip ==
  RoundTrip =>
    \A i \in 1..Len(last.orig) :
      /\ (ExactReciprocal(op.scal)
            /\ ExactProduct(Obj(last.via[1]).scal, last.orig[i], Mid[i]))
           => last.val[i] = last.orig[i]
      /\ (Normal(inv.scal) /\ Normal(Mid[i]) /\ Normal(last.val[i]))
           => Abs(last.val[i] - last.orig[i]) * Pow2(Precision) <= 4 * Abs(last.orig[i])

\* a round trip op then inv that returns x exactly, c = 1/2
C1_Witness ==
  /\ RoundTrip
  /\ last.via = <<"op", "inv">>
  /\ op.scal = PyFloat(1, 2)
  /\ last.val = last.orig

\* a round trip that rounds, with a scalar whose reciprocal is no float,
\* and stays within the bound
C1_WitnessRounded ==
  /\ RoundTrip
  /\ ~ExactReciprocal(op.scal)
  /\ last.val # last.orig

\* C6: ScalingOperator(S, 0) is constructed; its apply and call yield the zero
\* element; reading its inverse raises ZeroDivisionError, returns no operator
\* (so none with an infinite or undefined scalar) and leaves the operator as
\* it was.
C6_ZeroScalar ==
  /\ [](/\ (last.op = "new" /\ last.inp = <<"Rn", 0, 1>>)
             => (last.err = "" /\ op.cls = "ScalingOperator" /\ op.scal = 0)
        /\ (op # NoOp /\ op.scal = 0 /\ last.op = "apply")
             => (last.err = "" /\ \A i \in 1..Dim : elems[last.out][i] = 0)
        /\ (op # NoOp /\ op.scal = 0 /\ last.op = "call")
             => (last.err = "" /\ \A i \in 1..Dim : last.val[i] = 0)
        /\ (op # NoOp /\ op.scal = 0 /\ last.op = "inverse")
             => last.err = "ZeroDivisionError"
        /\ (op # NoOp /\ op.scal = 0) => inv = NoOp)
  /\ [][(op # NoOp /\ op.scal = 0 /\ last'.op = "inverse" /\ last' # last) => op' = op]_vars

\* the inverse of a zero scaling was read and failed, after construction
C6_Witness ==
  /\ op # NoOp /\ op.scal = 0 /\ op.cls = "ScalingOperator"
  /\ last.op = "inverse"
  /\ last.err = "ZeroDivisionError"
  /\ inv = NoOp

Product(x, y) == BuildSeq(LAMBDA i : FMul(x[i], y[i]), Len(x))

\* C7: with an output element z other than x and y, apply([x, y], z) leaves
\* z[i] = x[i]*y[i] for every i, whatever z held before, and x and y as
\* they were.
C7_DistinctOutput ==
  (last.op = "mul" /\ last.out \notin {last.inp[1], last.inp[2]}) =>
     /\ last.err = ""
     /\ Len(elems[last.out]) = Dim
     /\ \A i \in 1..Dim :
          elems[last.out][i] = FMul(last.pre[last.inp[1]][i], last.pre[last.inp[2]][i])
     /\ \A e \in DOMAIN elems \ {last.out} : elems[e] = last.pre[e]

\* apply([x, y], z) with three different elements, on a z that held neither
\* y nor the product
C7_Witness ==
  /\ last.op = "mul"
  /\ last.inp = <<"x", "y">>
  /\ last.out = "z"
  /\ last.pre["x"] # last.pre["y"]
  /\ last.pre["z"] # last.pre["y"]
  /\ last.pre["z"] # elems["z"]
  /\ elems["z"] = Product(last.pre["x"], last.pre["y"])

\* C10 as stated: when out is the same element as x or as y, out ends equal
\* to the elementwise product of the values x and y held before the call.
C10_AliasedOutput ==
  (last.op = "mul" /\ last.out \in {last.inp[1], last.inp[2]}) =>
     elems[last.out] = Product(last.pre[last.inp[1]], last.pre[last.inp[2]])

\* ------------------------------------------------------------------------
\* Properties of the factories (checked in SpecFactory)
\* ------------------------------------------------------------------------
FactoryOps == {"operator", "linear_operator"}

\* C4: operator() and linear_operator() with call and apply both None raise
\* ValueError, whatever the other arguments, and a factory call that raises
\* creates no operator type and no instance.
C4_NeitherPrimitive ==
  /\ []((last.op \in FactoryOps /\ last.call = None /\ last.apply = None)
          => last.err = "ValueError")
  /\ [][(last'.op \in FactoryOps /\ last'.err # "")
          => (ntypes' = ntypes /\ fop' = fop)]_vars

\* linear_operator() was called with neither primitive, before any operator
\* was made, and raised
C4_Witness ==
  /\ last.op = "linear_operator"
  /\ last.call = None /\ last.apply = None
  /\ last.err = "ValueError"
  /\ ntypes = 0 /\ fop = NoInst

\* what the plain function g(x, out) writes into out
Written(g, x) == ApplyFn(g, [e \in {"x", "out"} |-> x], "x", "out")["out"]

\* C5 as stated: an operator made from call=f alone returns f(x) when called
\* and apply(x, out) leaves out = f(x); one made from apply=g alone returns,
\* when called, a new element equal to what g writes into out.
C5_BothMeans ==
  /\ (last.op = "fcall" /\ last.call # None /\ last.apply = None)
       => (last.err = "" /\ last.val = CallFn(last.call, last.pre[last.inp]))
  /\ (last.op = "fapply" /\ last.call # None /\ last.apply = None)
       => (last.err = "" /\ elems[last.out] = CallFn(last.call, last.pre[last.inp]))
  /\ (last.op = "fcall" /\ last.call = None /\ last.apply # None)
       => (last.err = "" /\ last.val = Written(last.apply, last.pre[last.inp]))

\* ------------------------------------------------------------------------
\* Properties of convert and the dataset functions (checked in SpecImg)
\* ------------------------------------------------------------------------
\* the last operation was convert or a dataset function
Converted == last.op = "convert" \/ last.op \in DatasetFns

\* the entries of the array as the normalisation found it, and as returned
Before == Entries(last.prenorm)
After == Entries(last.ret)

\* a is a positive number, neither infinite nor NaN
PosFinite(a) == 0 < a /\ a <= MaxFinite

\* |a - 1| is at most 2 * n * 2^-Precision
NearOne(a, n) == IsFinite(a) /\ Abs(a - One) * Pow2(Precision) <= 2 * n * One

\* C2 as stated: convert with a normalize value other than "max" and "sum"
\* always fails; it never returns an image.
C2_UnknownModeFails ==
  (last.op = "convert" /\ args.normalize \notin {"max", "sum"}) => last.err # ""

\* C3 as stated: whenever convert returns, with normalize="max" the maximum
\* of the array is 1 and with normalize="sum" its entries sum to 1 (here: to
\* within rounding), whatever the image.
C3_NormalizedAlways ==
  (Converted /\ last.err = "") =>
     /\ args.normalize = "max" => SeqMax(After) = One
     /\ args.normalize = "sum" => NearOne(FSum(After), Len(After))

\* C3, amended: when convert returns with normalize="max" and the array to
\* normalise has a positive finite maximum, the returned array has maximum
\* exactly 1; with normalize="sum", entries all >= 0 and a positive finite sum, the
\* returned entries sum to 1 to within 2 * n * 2^-Precision (n entries). An
\* array that is all zero is returned as all NaN, with neither maximum nor
\* sum 1.
C3_Normalized ==
  (Converted /\ last.err = "") =>
     /\ (args.normalize = "max" /\ PosFinite(SeqMax(Before)))
          => (SeqMax(After) = One /\ \A i \in 1..Len(After) : After[i] <= One)
     /\ (args.normalize = "sum" /\ PosFinite(FSum(Before)) /\ \A i \in 1..Len(Before) : Before[i] >= 0)
          => NearOne(FSum(After), Len(After))
     /\ (args.normalize \in {"max", "sum"} /\ \A i \in 1..Len(Before) : Before[i] = 0)
          => (\A i \in 1..Len(After) : IsNaN(After[i]))

\* convert made a colour image gray and normalised it to maximum 1, from
\* entries that were not yet normalised
C3_Witness ==
  /\ last.op = "convert"
  /\ last.err = ""
  /\ args.gray /\ args.shape = NoShape /\ args.normalize = "max"
  /\ PosFinite(SeqMax(Before)) /\ SeqMax(Before) > One
  /\ SeqMax(After) = One

\* C9: after convert or a dataset function has returned or failed, the array
\* it was given (the array the fetch/cache collaborator holds) has the values
\* it had before the call, for every gray, shape, dtype and normalize.
C9_InputUnchanged == Converted => data = last.predata

\* convert weighted the channels and divided in place, and returned an array
\* that differs from its float64 input, which is as it was
C9_Witness ==
  /\ last.op = "convert"
  /\ last.err = ""
  /\ args.normalize = "sum"
  /\ data.dtype = "float64"
  /\ last.ret # data
  /\ data = last.predata

\* a dataset function made its image gray in place in a copy
C9_WitnessDataset ==
  /\ last.op = "building"
  /\ last.err = ""
  /\ args.gray
  /\ data = last.predata
====
